---- MODULE Spec2Model ----
(***************************************************************************)
(* Model of pyscaffold's "edit" extension                                  *)
(* (src/src/pyscaffold/extensions/edit.py).                                *)
(*                                                                         *)
(* Text is modelled as a sequence of one-character strings, so that        *)
(* quoting, line splitting and shell tokenisation are computed character   *)
(* by character, the way the Python library functions the code calls       *)
(* compute them.  os.linesep is modelled as "\n" (POSIX).                 *)
(***************************************************************************)
EXTENDS Integers, Sequences, FiniteSets, TLC

VARIABLES
    installed,   \* the extensions iterate_entry_points() enumerates
    cache,       \* lru_cache of get_config: sequence of [kind, value], most recent last
    walks,       \* how many times get_config enumerated the extensions
    ret,         \* value returned by the last get_config call
    calls,       \* history of get_config calls: [kind, value, expected]
    op,          \* renderer: the last function applied
    in_action,   \* renderer: its descriptor argument
    in_actions,  \* renderer: its descriptor-list argument
    in_opts,     \* renderer: its resolved-options argument
    in_text,     \* split_args: its text argument
    text_from,   \* split_args: the function that rendered its argument, or "input"
    out,         \* renderer / split_args: the value returned
    pc,          \* Edit.command: position in the method
    opts,        \* Edit.command: the options it was called with / expanded
    content,     \* Edit.command: local variable `content`
    written,     \* Edit.command: the text written to the temp file
    file,        \* the text the temp file holds
    tmp,         \* Edit.command: temp file "none" | "held" | "released"
    steps,       \* Edit.command: the steps executed so far, in order
    failedAt,    \* Edit.command: the step that raised, or "none"
    mainArgs     \* Edit.command: the argument lists cli.main was invoked with

configVars == <<installed, cache, walks, ret, calls>>
renderVars == <<op, in_action, in_actions, in_opts, in_text, text_from, out>>
driverVars == <<pc, opts, content, written, file, tmp, steps, failedAt, mainArgs>>
vars == <<configVars, renderVars, driverVars>>

-----------------------------------------------------------------------------
(* Characters and Python string helpers                                    *)

SP == " "
LF == "\n"
CR == "\r"
TAB == "\t"
SQ == "'"
DQ == "\""
BS == "\\"
HASH == "#"

\* os.linesep
linesep == <<LF>>

\* str.isspace(), over the characters the model uses
Whitespace == {SP, TAB, LF, CR}

\* the line boundaries str.splitlines() recognises, over the modelled characters
LineBreaks == {LF, CR}

RECURSIVE Flatten(_)
Flatten(ss) == IF ss = <<>> THEN <<>> ELSE Head(ss) \o Flatten(Tail(ss))

\* sep.join(parts)
RECURSIVE Join(_, _)
Join(sep, parts) ==
    IF parts = <<>> THEN <<>>
    ELSE IF Len(parts) = 1 THEN parts[1]
    ELSE parts[1] \o sep \o Join(sep, Tail(parts))

IsPrefix(p, t) == Len(p) <= Len(t) /\ SubSeq(t, 1, Len(p)) = p

\* s * n
RECURSIVE Repeat(_, _)
Repeat(s, n) == IF n = 0 THEN <<>> ELSE s \o Repeat(s, n - 1)

\* the elements of a finite set of integers, in increasing order
Sorted(S) == [k \in 1..Cardinality(S) |-> CHOOSE x \in S : Cardinality({y \in S : y < x}) = k - 1]

Min(S) == CHOOSE x \in S : \A y \in S : x <= y
Max(S) == CHOOSE x \in S : \A y \in S : x >= y

\* str.strip()
strip(s) ==
    LET keep == {i \in 1..Len(s) : s[i] \notin Whitespace}
    IN IF keep = {} THEN <<>> ELSE SubSeq(s, Min(keep), Max(keep))

\* str.splitlines(keepends): a line ends at a line break ("\r\n" is one
\* break); no empty last line follows a final break
splitlines(text, keepends) ==
    LET n == Len(text)
        IsCRLF(i) == text[i] = CR /\ i < n /\ text[i + 1] = LF
        ends == Sorted({i \in 1..n : text[i] \in LineBreaks /\ ~IsCRLF(i)})
        m == Len(ends)
        start(k) == IF k = 1 THEN 1 ELSE ends[k - 1] + 1
        brk(k) == IF ends[k] > start(k) /\ IsCRLF(ends[k] - 1) THEN 2 ELSE 1
        full == [k \in 1..m |->
                    SubSeq(text, start(k), IF keepends THEN ends[k] ELSE ends[k] - brk(k))]
        last == IF m = 0 THEN 0 ELSE ends[m]
    IN IF last < n THEN Append(full, SubSeq(text, last + 1, n)) ELSE full

\* textwrap.indent(text, prefix): the prefix goes before every line that is
\* not made of whitespace only
RECURSIVE IndentLines(_, _)
IndentLines(lines, prefix) ==
    IF lines = <<>> THEN <<>>
    ELSE (IF strip(Head(lines)) # <<>> THEN prefix \o Head(lines) ELSE Head(lines))
         \o IndentLines(Tail(lines), prefix)

textwrap_indent(text, prefix) == IndentLines(splitlines(text, TRUE), prefix)

-----------------------------------------------------------------------------
(* shlex.quote and shlex.split (posix=True, comments=False)                *)

\* the characters shlex.quote leaves unquoted: [a-zA-Z0-9_@%+=:,./-]
SafeChars ==
    {"a","b","c","d","e","f","g","h","i","j","k","l","m","n","o","p","q","r","s",
     "t","u","v","w","x","y","z","A","B","C","D","E","F","G","H","I","J","K","L",
     "M","N","O","P","Q","R","S","T","U","V","W","X","Y","Z","0","1","2","3","4",
     "5","6","7","8","9","_","@","%","+","=",":",",",".","/","-"}

RECURSIVE ReplaceQuote(_)
ReplaceQuote(s) ==
    IF s = <<>> THEN <<>>
    ELSE (IF Head(s) = SQ THEN <<SQ, DQ, SQ, DQ, SQ>> ELSE <<Head(s)>>)
         \o ReplaceQuote(Tail(s))

shlex_quote(s) ==
    IF s = <<>> THEN <<SQ, SQ>>
    ELSE IF \A i \in 1..Len(s) : s[i] \in SafeChars THEN s
    ELSE <<SQ>> \o ReplaceQuote(s) \o <<SQ>>

shlex_whitespace == {SP, TAB, CR, LF}
shlex_quotes == {SQ, DQ}
shlex_escape == {BS}
shlex_escapedquotes == {DQ}

\* shlex.read_token, iterated over the whole string.  state is the lexer's
\* state (" ", "a", a quote or the escape character), token the token being
\* built, quoted whether it had quotes, esc the state to return to after an
\* escape, toks the tokens emitted so far.  The result is
\* [ok |-> TRUE, tokens |-> ...] or, when shlex raises ValueError,
\* [ok |-> FALSE, tokens |-> <<>>].
RECURSIVE read_token(_, _, _, _, _, _, _)
read_token(s, i, state, token, quoted, esc, toks) ==
    IF i > Len(s) THEN
        IF state \in shlex_quotes THEN [ok |-> FALSE, tokens |-> <<>>]
        ELSE IF state \in shlex_escape THEN [ok |-> FALSE, tokens |-> <<>>]
        ELSE [ok |-> TRUE,
              tokens |-> IF token # <<>> \/ quoted THEN Append(toks, token) ELSE toks]
    ELSE LET c == s[i] IN
        IF state = " " THEN
            IF c \in shlex_whitespace THEN
                IF token # <<>> \/ quoted
                THEN read_token(s, i + 1, state, <<>>, FALSE, esc, Append(toks, token))
                ELSE read_token(s, i + 1, state, token, quoted, esc, toks)
            ELSE IF c \in shlex_escape THEN
                read_token(s, i + 1, c, token, quoted, "a", toks)
            ELSE IF c \in shlex_quotes THEN
                read_token(s, i + 1, c, token, quoted, esc, toks)
            ELSE read_token(s, i + 1, "a", <<c>>, quoted, esc, toks)
        ELSE IF state \in shlex_quotes THEN
            IF c = state THEN read_token(s, i + 1, "a", token, TRUE, esc, toks)
            ELSE IF c \in shlex_escape /\ state \in shlex_escapedquotes THEN
                read_token(s, i + 1, c, token, TRUE, state, toks)
            ELSE read_token(s, i + 1, state, Append(token, c), TRUE, esc, toks)
        ELSE IF state \in shlex_escape THEN
            LET t == IF esc \in shlex_quotes /\ c # state /\ c # esc
                     THEN Append(token, state) ELSE token
            IN read_token(s, i + 1, esc, Append(t, c), quoted, esc, toks)
        ELSE \* state = "a"
            IF c \in shlex_whitespace THEN
                IF token # <<>> \/ quoted
                THEN read_token(s, i + 1, " ", <<>>, FALSE, esc, Append(toks, token))
                ELSE read_token(s, i + 1, " ", token, quoted, esc, toks)
            ELSE IF c \in shlex_quotes THEN
                read_token(s, i + 1, c, token, quoted, esc, toks)
            ELSE IF c \in shlex_escape THEN
                read_token(s, i + 1, c, token, quoted, "a", toks)
            ELSE read_token(s, i + 1, "a", Append(token, c), quoted, esc, toks)

shlex_split(s) == read_token(s, 1, " ", <<>>, FALSE, " ", <<>>)

-----------------------------------------------------------------------------
(* Python values                                                           *)

None == [t |-> "None"]
Str(s) == [t |-> "str", v |-> s]
List(l) == [t |-> "list", v |-> l]
Tuple(l) == [t |-> "tuple", v |-> l]
Bool(b) == [t |-> "bool", v |-> b]

Range(f) == {f[i] : i \in DOMAIN f}

\* bool(x)
Truthy(x) ==
    CASE x.t = "None" -> FALSE
      [] x.t = "bool" -> x.v
      [] OTHER -> x.v # <<>>

\* f"{a}" for a scalar option value
FormatValue(x) ==
    CASE x.t = "str" -> x.v
      [] x.t = "bool" -> IF x.v THEN <<"T","r","u","e">> ELSE <<"F","a","l","s","e">>
      [] OTHER -> <<"N","o","n","e">>

\* dict.get(key, default)
DictGet(d, key, default) == IF key \in DOMAIN d THEN d[key] ELSE default

\* getattr(obj, name, default)
GetAttr(obj, name, default) == IF name \in DOMAIN obj THEN obj[name] ELSE default

-----------------------------------------------------------------------------
(* Flags and extensions                                                    *)

F_help == <<"-","-","h","e","l","p">>
F_h == <<"-","h">>
F_version == <<"-","-","v","e","r","s","i","o","n">>
F_verbose == <<"-","-","v","e","r","b","o","s","e">>
F_v == <<"-","v">>
F_very_verbose == <<"-","-","v","e","r","y","-","v","e","r","b","o","s","e">>
F_vv == <<"-","v","v">>
F_edit == <<"-","-","e","d","i","t">>
F_name == <<"-","-","n","a","m","e">>
F_n == <<"-","n">>
F_license == <<"-","-","l","i","c","e","n","s","e">>
F_l == <<"-","l">>
F_force == <<"-","-","f","o","r","c","e">>
F_f == <<"-","f">>
F_tox == <<"-","-","t","o","x">>
F_cirrus == <<"-","-","c","i","r","r","u","s">>
F_quiet == <<"-","-","q","u","i","e","t">>

D_name == <<"n","a","m","e">>
D_license == <<"l","i","c","e","n","s","e">>
D_force == <<"f","o","r","c","e">>
D_extensions == <<"e","x","t","e","n","s","i","o","n","s">>
D_log_level == <<"l","o","g">>
D_command == <<"c","o","m","m","a","n","d">>
D_help == <<"h","e","l","p">>
D_version == <<"v","e","r","s","i","o","n">>
D_project_path == <<"p","a","t","h">>

\* Edit: on_edit = {"ignore": ["--edit"]}; Extension.flag is "--" + the name
EditExt == [name |-> "edit", flag |-> F_edit, on_edit |-> [ignore |-> <<F_edit>>]]
\* an extension that declares nothing
ToxExt == [name |-> "tox", flag |-> F_tox]
\* an extension that asks for its own flag to be commented and another ignored
CirrusExt ==
    [name |-> "cirrus", flag |-> F_cirrus,
     on_edit |-> [comment |-> <<F_cirrus>>, ignore |-> <<F_quiet>>]]

ExtensionPool == {EditExt, ToxExt, CirrusExt}

Kinds == {"ignore", "comment"}

CONFIG ==
    [ignore |-> <<F_help, F_version>>,
     comment |-> <<F_verbose, F_very_verbose>>]

-----------------------------------------------------------------------------
(* get_config and its lru_cache                                            *)

\* a cache of one entry
maxsize_one == 2 - 1

\* lru_cache(maxsize=2)
maxsize == 2

\* iterate_entry_points(): the installed extensions, in a stable order
RECURSIVE SetToSeq(_)
SetToSeq(S) ==
    IF S = {} THEN <<>>
    ELSE LET x == CHOOSE y \in S : TRUE IN <<x>> \o SetToSeq(S \ {x})

iterate_entry_points == SetToSeq(installed)

_reducer(acc, ext, kind) ==
    LET config_from_ext ==
            GetAttr(ext, "on_edit", [ignore |-> <<>>, comment |-> <<>>])
    IN acc \cup Range(DictGet(config_from_ext, kind, <<>>))

RECURSIVE reduce(_, _, _)
reduce(exts, acc, kind) ==
    IF exts = <<>> THEN acc
    ELSE reduce(Tail(exts), _reducer(acc, Head(exts), kind), kind)

\* the body of get_config: what a cache miss computes
get_config_body(kind) == reduce(iterate_entry_points, Range(CONFIG[kind]), kind)

CacheHit(c, kind) == \E i \in 1..Len(c) : c[i].kind = kind

CacheValue(c, kind) == (CHOOSE e \in Range(c) : e.kind = kind).value

\* get_config(kind): the cached value if there is one, the computed one otherwise
get_config(kind) ==
    IF CacheHit(cache, kind) THEN CacheValue(cache, kind) ELSE get_config_body(kind)

\* the cache after a call: a hit becomes the most recently used entry, a miss
\* is stored and the least recently used entry evicted beyond maxsize
CacheAfter(c, kind) ==
    IF CacheHit(c, kind)
    THEN Append(SelectSeq(c, LAMBDA e : e.kind # kind),
                [kind |-> kind, value |-> CacheValue(c, kind)])
    ELSE LET full == Append(c, [kind |-> kind, value |-> get_config_body(kind)])
         IN IF Len(full) > maxsize THEN Tail(full) ELSE full

\* the cache and the number of enumerations after a sequence of calls
RECURSIVE AfterCalls(_, _, _)
AfterCalls(c, w, kinds) ==
    IF kinds = <<>> THEN [cache |-> c, walks |-> w]
    ELSE AfterCalls(CacheAfter(c, Head(kinds)),
                    IF CacheHit(c, Head(kinds)) THEN w ELSE w + 1,
                    Tail(kinds))

-----------------------------------------------------------------------------
(* textwrap.wrap, for text without hyphenated words                        *)

INDENT_LEVEL == 4

\* the default width of wrap()
WrapWidth == 70

\* str.expandtabs(): a tab becomes the spaces up to the next multiple of 8
RECURSIVE expandtabs(_)
expandtabs(text) ==
    LET tabs == {i \in 1..Len(text) : text[i] = TAB} IN
    IF tabs = {} THEN text
    ELSE LET t == Min(tabs)
             brk == Max({0} \cup {i \in 1..(t - 1) : text[i] \in {LF, CR}})
             col == t - 1 - brk
         IN SubSeq(text, 1, t - 1) \o Repeat(<<SP>>, 8 - (col % 8))
            \o expandtabs(SubSeq(text, t + 1, Len(text)))

\* TextWrapper._munge_whitespace: tabs expanded, then every whitespace
\* character replaced by a space
munge_whitespace(text) ==
    LET e == expandtabs(text)
    IN [i \in 1..Len(e) |-> IF e[i] \in Whitespace THEN SP ELSE e[i]]

\* TextWrapper._split: maximal runs of whitespace and of non-whitespace
SplitChunks(text) ==
    LET n == Len(text)
        starts == Sorted({i \in 1..n : i = 1 \/ ((text[i] = SP) # (text[i - 1] = SP))})
        m == Len(starts)
    IN [k \in 1..m |-> SubSeq(text, starts[k], IF k = m THEN n ELSE starts[k + 1] - 1)]

\* the inner loop of TextWrapper._wrap_chunks: chunks that fit on the line
RECURSIVE FillLine(_, _, _, _)
FillLine(chunks, width, cur_line, cur_len) ==
    IF chunks # <<>> /\ cur_len + Len(Head(chunks)) <= width
    THEN FillLine(Tail(chunks), width, Append(cur_line, Head(chunks)),
                  cur_len + Len(Head(chunks)))
    ELSE [cur_line |-> cur_line, cur_len |-> cur_len, chunks |-> chunks]

\* TextWrapper._wrap_chunks (break_long_words, drop_whitespace)
RECURSIVE wrap_chunks(_, _, _)
wrap_chunks(chunks, width, lines) ==
    IF chunks = <<>> THEN lines
    ELSE LET cs == IF strip(Head(chunks)) = <<>> /\ lines # <<>>
                   THEN Tail(chunks) ELSE chunks
             f == FillLine(cs, width, <<>>, 0)
             long == f.chunks # <<>> /\ Len(Head(f.chunks)) > width
             space_left == width - f.cur_len
             line1 == IF long
                      THEN Append(f.cur_line, SubSeq(Head(f.chunks), 1, space_left))
                      ELSE f.cur_line
             rest == IF long
                     THEN <<SubSeq(Head(f.chunks), space_left + 1, Len(Head(f.chunks)))>>
                          \o Tail(f.chunks)
                     ELSE f.chunks
             line2 == IF line1 # <<>> /\ strip(line1[Len(line1)]) = <<>>
                      THEN SubSeq(line1, 1, Len(line1) - 1) ELSE line1
         IN wrap_chunks(rest, width, IF line2 # <<>> THEN Append(lines, Flatten(line2))
                                     ELSE lines)

textwrap_wrap(text, width) == wrap_chunks(SplitChunks(munge_whitespace(text)), width, <<>>)

-----------------------------------------------------------------------------
(* The example renderer                                                    *)

\* def wrap(text, width=70): os.linesep.join(textwrap.wrap(text or "", width))
wrap(text) == Join(linesep, textwrap_wrap(text, WrapWidth))

\* def comment(text, comment_mark="#", indent_level=0)
comment(text, indent_level) ==
    textwrap_indent(text, Repeat(<<SP>>, indent_level) \o <<HASH>> \o <<SP>>)

\* def join_block(*parts, sep=os.linesep)
join_block(parts, sep) == Join(sep, SelectSeq(parts, LAMBDA p : p # <<>>))

\* sorted(seq, key=len): a stable insertion sort
RECURSIVE InsertByLen(_, _)
InsertByLen(sorted, x) ==
    IF sorted = <<>> THEN <<x>>
    ELSE IF Len(sorted[Len(sorted)]) <= Len(x) THEN Append(sorted, x)
    ELSE Append(InsertByLen(SubSeq(sorted, 1, Len(sorted) - 1), x), sorted[Len(sorted)])

RECURSIVE SortedByLen(_)
SortedByLen(seq) ==
    IF seq = <<>> THEN <<>>
    ELSE InsertByLen(SortedByLen(SubSeq(seq, 1, Len(seq) - 1)), seq[Len(seq)])

\* def long_option(action)
long_option(action) ==
    LET sorted == SortedByLen(IF action.option_strings # <<>>
                              THEN action.option_strings ELSE << <<>> >>)
    IN sorted[Len(sorted)]

\* def alternative_flags(action)
alternative_flags(action) ==
    LET sorted == SortedByLen(action.option_strings)
        alts == IF sorted = <<>> THEN <<>> ELSE SubSeq(sorted, 1, Len(sorted) - 1)
    IN IF alts # <<>>
       THEN <<"(","o","r"," ","a","l","t","e","r","n","a","t","i","v","e","l","y",":"," ">>
            \o Join(<<SP>>, alts) \o <<")">>
       ELSE <<>>

\* def has_active_extension(action, opts)
has_active_extension(action, o) ==
    LET exts == DictGet(o, D_extensions, List(<<>>)).v
        ext_flags == {GetAttr(exts[i], "flag", None) : i \in DOMAIN exts}
    IN \E i \in DOMAIN action.option_strings : action.option_strings[i] \in ext_flags

\* example_no_value with the test of the commented set inverted
example_no_value_inverted(action, o) ==
    LET long == long_option(action) IN
    IF \/ /\ long \in get_config("comment")
          /\ action.dest # D_extensions
          /\ Truthy(DictGet(o, action.dest, None))
       \/ has_active_extension(action, o)
    THEN <<SP>> \o long
    ELSE comment(long, 0)

\* def example_no_value(parser, action, opts)
example_no_value(action, o) ==
    LET long == long_option(action) IN
    IF \/ /\ long \notin get_config("comment")
          /\ action.dest # D_extensions
          /\ Truthy(DictGet(o, action.dest, None))
       \/ has_active_extension(action, o)
    THEN <<SP>> \o long
    ELSE comment(long, 0)

\* HelpFormatter._format_args(action, default_metavar), without choices
format_args(action, default_metavar) ==
    LET m == IF action.metavar # None THEN action.metavar.v ELSE default_metavar IN
    CASE action.nargs = "None" -> m
      [] action.nargs = "?" -> <<"[">> \o m \o <<"]">>
      [] action.nargs = "*" -> <<"[">> \o m \o <<" ",".",".",".","]">>
      [] action.nargs = "+" -> m \o <<" ","[">> \o m \o <<" ",".",".",".","]">>
      [] OTHER -> <<>>

\* " ".join(shlex.quote(f"{a}") for a in args)
RECURSIVE QuoteAll(_)
QuoteAll(args) ==
    IF args = <<>> THEN <<>> ELSE <<shlex_quote(Head(args))>> \o QuoteAll(Tail(args))

\* def example_with_value(parser, action, opts)
example_with_value(action, o) ==
    LET long == long_option(action)
        arg == DictGet(o, action.dest, None)
        args == IF arg.t \in {"list", "tuple"} THEN arg.v ELSE <<FormatValue(arg)>>
        value == strip(Join(<<SP>>, QuoteAll(args)))
    IN IF arg = None \/ long \in get_config("comment") \/ value = <<>>
       THEN comment(strip(long \o <<SP>> \o format_args(action, action.dest)), 0)
       ELSE <<SP>> \o long \o <<SP>> \o value

\* def example(parser, action, opts)
example(action, o) ==
    IF action.nargs = "0" THEN example_no_value(action, o) ELSE example_with_value(action, o)

\* def example_with_help(parser, action, opts)
example_with_help(action, o) ==
    join_block(<<example(action, o),
                 comment(alternative_flags(action), INDENT_LEVEL),
                 comment(wrap(action.help), INDENT_LEVEL)>>,
               linesep)

\* a generator that does not leave out the ignored actions
RECURSIVE example_parts_unfiltered(_, _)
example_parts_unfiltered(actions, o) ==
    IF actions = <<>> THEN <<>>
    ELSE <<example_with_help(Head(actions), o)>> \o example_parts_unfiltered(Tail(actions), o)

\* the generator in all_examples: one part for each action that is not ignored
RECURSIVE example_parts(_, _)
example_parts(actions, o) ==
    IF actions = <<>> THEN <<>>
    ELSE (IF long_option(Head(actions)) \notin get_config("ignore")
          THEN <<example_with_help(Head(actions), o)>> ELSE <<>>)
         \o example_parts(Tail(actions), o)

\* def all_examples(parser, actions, opts)
all_examples(actions, o) == join_block(example_parts(actions, o), Repeat(linesep, 3))

\* the lines kept when the comment mark is looked for before stripping
kept_lines_unstripped(text) ==
    LET lines == SelectSeq(splitlines(text, FALSE), LAMBDA x : x # <<>> /\ x[1] # HASH)
    IN SelectSeq([i \in DOMAIN lines |-> strip(lines[i])], LAMBDA x : x # <<>>)

\* the lines split_args keeps: stripped, not empty, not starting with "#"
kept_lines(text) ==
    LET lines == splitlines(text, FALSE)
        stripped == [i \in DOMAIN lines |-> strip(lines[i])]
    IN SelectSeq(stripped, LAMBDA x : x # <<>> /\ x[1] # HASH)

\* a split that leaves out the lines shlex cannot tokenise
RECURSIVE chain_split_skipping(_)
chain_split_skipping(lines) ==
    IF lines = <<>> THEN [ok |-> TRUE, tokens |-> <<>>]
    ELSE LET h == shlex_split(Head(lines))
             r == chain_split_skipping(Tail(lines))
         IN [ok |-> TRUE, tokens |-> (IF h.ok THEN h.tokens ELSE <<>>) \o r.tokens]

RECURSIVE chain_split(_)
chain_split(lines) ==
    IF lines = <<>> THEN [ok |-> TRUE, tokens |-> <<>>]
    ELSE LET h == shlex_split(Head(lines)) IN
         IF ~h.ok THEN [ok |-> FALSE, tokens |-> <<>>]
         ELSE LET r == chain_split(Tail(lines)) IN
              IF ~r.ok THEN r ELSE [ok |-> TRUE, tokens |-> h.tokens \o r.tokens]

\* def split_args(text): [ok |-> TRUE, tokens |-> the list returned], or
\* [ok |-> FALSE, tokens |-> <<>>] when shlex.split raises ValueError
split_args(text) == chain_split(kept_lines(text))

-----------------------------------------------------------------------------
(* Values of the variables a specification does not use                    *)

ConfigIdle == /\ walks = 0 /\ ret = {} /\ calls = <<>>

RenderIdle ==
    /\ op = "none" /\ in_action = None /\ in_actions = <<>>
    /\ in_opts = <<>> /\ in_text = <<>> /\ text_from = "input" /\ out = None

DriverIdle ==
    /\ pc = "idle" /\ opts = <<>> /\ content = <<>> /\ written = <<>> /\ file = <<>>
    /\ tmp = "none" /\ steps = <<>> /\ failedAt = "none" /\ mainArgs = <<>>

-----------------------------------------------------------------------------
(* ConfigSpec: get_config called repeatedly while extensions come and go   *)

\* bound on the number of get_config calls in a behaviour
MaxCalls == 3

ConfigInit ==
    /\ installed \in SUBSET ExtensionPool
    /\ cache = <<>>
    /\ ConfigIdle /\ RenderIdle /\ DriverIdle

\* a call get_config(kind)
GetConfig(kind) ==
    /\ Len(calls) < MaxCalls
    /\ ret' = get_config(kind)
    /\ cache' = CacheAfter(cache, kind)
    /\ walks' = AfterCalls(cache, walks, <<kind>>).walks
    /\ calls' = Append(calls, [kind |-> kind, value |-> get_config(kind),
                               installed |-> installed,
                               walked |-> ~CacheHit(cache, kind)])
    /\ UNCHANGED <<installed, renderVars, driverVars>>

\* the environment installs or removes an extension between calls
Install(e) ==
    /\ e \notin installed
    /\ installed' = installed \cup {e}
    /\ UNCHANGED <<cache, walks, ret, calls, renderVars, driverVars>>

Uninstall(e) ==
    /\ e \in installed
    /\ installed' = installed \ {e}
    /\ UNCHANGED <<cache, walks, ret, calls, renderVars, driverVars>>

ConfigNext ==
    \/ \E kind \in Kinds : GetConfig(kind)
    \/ \E e \in ExtensionPool : Install(e)
    \/ \E e \in ExtensionPool : Uninstall(e)

ConfigSpec == ConfigInit /\ [][ConfigNext]_vars

\* what the on_edit declarations of a set of extensions add up to for a kind
Declared(kind, exts) ==
    UNION {Range(e.on_edit[kind]) :
             e \in {x \in exts : "on_edit" \in DOMAIN x /\ kind \in DOMAIN x.on_edit}}

FirstCall(kind) == Min({j \in 1..Len(calls) : calls[j].kind = kind})

\* C10: every get_config(kind) call returns CONFIG[kind] united with what the
\* extensions installed at the first call for that kind declare for it (an
\* extension without on_edit, or without an entry for the kind, adds nothing);
\* only the first call for a kind enumerates the extensions, so later calls
\* return the same set even after the installed extensions changed.
C10_GetConfigMemoized ==
    /\ \A i \in 1..Len(calls) :
          LET c == calls[i]
              first == FirstCall(c.kind)
          IN /\ c.value = Range(CONFIG[c.kind]) \cup Declared(c.kind, calls[first].installed)
             /\ c.walked = (i = first)
    /\ walks = Cardinality({calls[i].kind : i \in 1..Len(calls)})
    /\ (calls # <<>> => ret = calls[Len(calls)].value)

\* a later call for a kind, after a call for the other kind and after the
\* installed extensions changed what a fresh computation would give, with an
\* extension that declares nothing installed at the first call
C10_Witness ==
    \E i, k, j \in 1..Len(calls) :
        /\ i < k /\ k < j
        /\ calls[i].kind = calls[j].kind /\ calls[k].kind # calls[i].kind
        /\ i = FirstCall(calls[i].kind)
        /\ ToxExt \in calls[i].installed
        /\ EditExt \in calls[i].installed
        /\ Declared(calls[j].kind, calls[j].installed)
             # Declared(calls[i].kind, calls[i].installed)

-----------------------------------------------------------------------------
(* RenderSpec: one call of a renderer function or of split_args on inputs  *)
(* drawn from bounded sets, and split_args applied to what was rendered    *)

\* bounds on the inputs
MaxStrLen == 2
MaxListLen == 2
MaxActions == 3
MaxTextLen == 4

SeqsUpTo(S, n) == UNION {[1..k -> S] : k \in 0..n}

M_NAME == <<"N","A","M","E">>
H_name == <<"t","h","e"," ","n","a","m","e">>
H_force == <<"f","o","r","c","e"," "," ","i","t",LF,"n","o","w">>
H_path == <<"p","a","t","h">>
\* a help text longer than one wrapped line
H_license == Repeat(<<"l","i","c","e","n","s","e"," ">>, 10)

Descriptor(option_strings, dest, nargs, help, metavar) ==
    [option_strings |-> option_strings, dest |-> dest, nargs |-> nargs,
     help |-> help, metavar |-> metavar]

A_help == Descriptor(<<F_h, F_help>>, D_help, "0", <<>>, None)
A_version == Descriptor(<<F_version>>, D_version, "0", <<>>, None)
A_edit == Descriptor(<<F_edit>>, D_command, "0", <<>>, None)
A_verbose == Descriptor(<<F_v, F_verbose>>, D_log_level, "0", <<>>, None)
A_very_verbose == Descriptor(<<F_vv, F_very_verbose>>, D_log_level, "0", <<>>, None)
A_force == Descriptor(<<F_force, F_f>>, D_force, "0", H_force, None)
A_tox == Descriptor(<<F_tox>>, D_extensions, "0", <<>>, None)
A_cirrus == Descriptor(<<F_cirrus>>, D_extensions, "0", <<>>, None)
A_name == Descriptor(<<F_n, F_name>>, D_name, "None", H_name, Str(M_NAME))
A_license == Descriptor(<<F_license, F_l>>, D_license, "+", H_license, None)
A_level == Descriptor(<<F_verbose>>, D_log_level, "None", <<>>, None)
\* a positional argument: no option strings
A_path == Descriptor(<<>>, D_project_path, "None", H_path, None)

FlagDescriptors == {A_help, A_edit, A_verbose, A_very_verbose, A_force, A_tox, A_cirrus}
ValueDescriptors == {A_name, A_license, A_level, A_path}
DocDescriptors == {A_help, A_verbose, A_force, A_name, A_license, A_path}

ValueChars == {"a", SP, SQ, DQ, BS, HASH, LF, "-"}
ElemStrings == {<<>>, <<"a">>, <<"a", SP, "b">>, <<SQ>>, <<HASH>>, <<"M","I","T">>}

\* the values a value-taking destination can hold
OptionValues ==
    {None} \cup {Str(x) : x \in SeqsUpTo(ValueChars, MaxStrLen)}
    \cup {List(l) : l \in SeqsUpTo(ElemStrings, MaxListLen)}
    \cup {Tuple(l) : l \in SeqsUpTo(ElemStrings, MaxListLen)}

\* the values a flag's destination can hold
FlagValues == {None, Bool(TRUE), Bool(FALSE), Str(<<"x">>), Str(<<>>), List(<<>>)}

\* the values of opts["extensions"]
ExtensionLists ==
    {List(<<>>), List(<<ToxExt>>), List(<<CirrusExt>>), List(<<EditExt, ToxExt>>)}

\* resolved options for one descriptor: its destination absent or holding v,
\* "extensions" absent or holding a list of extensions
OptsWith(dest, values) ==
    {<<>>} \cup {dest :> v : v \in values}

WithExtensions(o) ==
    {o} \cup {(D_extensions :> e) @@ o : e \in ExtensionLists}

FlagOpts(a) ==
    IF a.dest = D_extensions
    THEN WithExtensions(<<>>)
    ELSE UNION {WithExtensions(o) : o \in OptsWith(a.dest, FlagValues)}

\* resolved options for a whole document
DocOpts ==
    LET n == D_name :> Str(<<"m","y","p","r","o","j">>)
        l == D_license :> List(<<<<"M","I","T">>, <<"a", SP, "b">>>>)
        f == (D_force :> Bool(TRUE)) @@ (D_project_path :> Str(<<"i","t",SQ,"s">>))
             @@ (D_log_level :> Bool(TRUE))
    IN {<<>>, n, n @@ l, n @@ l @@ f}

TextChars == {"a", SP, HASH, LF, SQ}

\* the scenario text "  # comment\n --name foo \n\n"
ScenarioText ==
    <<SP, SP, HASH, SP, "c","o","m","m","e","n","t", LF,
      SP, "-","-","n","a","m","e", SP, "f","o","o", SP, LF, LF>>

InputTexts == SeqsUpTo(TextChars, MaxTextLen) \cup {ScenarioText}

\* the get_config calls each function makes, in order
CallsOfNoValue == <<"comment">>

CallsOfWithValue(a, o) ==
    IF DictGet(o, a.dest, None) = None THEN <<>> ELSE <<"comment">>

CallsOfExample(a, o) ==
    IF a.nargs = "0" THEN CallsOfNoValue ELSE CallsOfWithValue(a, o)

RECURSIVE CallsOfAllExamples(_, _)
CallsOfAllExamples(actions, o) ==
    IF actions = <<>> THEN <<>>
    ELSE <<"ignore">>
         \o (IF long_option(Head(actions)) \notin get_config("ignore")
             THEN CallsOfExample(Head(actions), o) ELSE <<>>)
         \o CallsOfAllExamples(Tail(actions), o)

\* the effect of a function's get_config calls on the cache
Cached(kinds) ==
    /\ cache' = AfterCalls(cache, walks, kinds).cache
    /\ walks' = AfterCalls(cache, walks, kinds).walks
    /\ UNCHANGED <<installed, ret, calls>>

RenderInit ==
    /\ installed \in {{EditExt, ToxExt}, ExtensionPool}
    /\ cache = <<>>
    /\ ConfigIdle /\ RenderIdle /\ DriverIdle

ExampleNoValue ==
    /\ op = "none"
    /\ \E a \in FlagDescriptors : \E o \in FlagOpts(a) :
        /\ op' = "example_no_value"
        /\ in_action' = a /\ in_opts' = o
        /\ out' = example_no_value(a, o)
        /\ Cached(CallsOfNoValue)
        /\ in_actions' = <<>> /\ in_text' = <<>> /\ text_from' = "input"
        /\ UNCHANGED driverVars

ExampleWithValue ==
    /\ op = "none"
    /\ \E a \in ValueDescriptors : \E o \in OptsWith(a.dest, OptionValues) :
        /\ op' = "example_with_value"
        /\ in_action' = a /\ in_opts' = o
        /\ out' = example_with_value(a, o)
        /\ Cached(CallsOfWithValue(a, o))
        /\ in_actions' = <<>> /\ in_text' = <<>> /\ text_from' = "input"
        /\ UNCHANGED driverVars

AllExamples ==
    /\ op = "none"
    /\ \E actions \in SeqsUpTo(DocDescriptors, MaxActions) : \E o \in DocOpts :
        /\ op' = "all_examples"
        /\ in_actions' = actions /\ in_opts' = o
        /\ out' = all_examples(actions, o)
        /\ Cached(CallsOfAllExamples(actions, o))
        /\ in_action' = None /\ in_text' = <<>> /\ text_from' = "input"
        /\ UNCHANGED driverVars

\* split_args applied to a text typed in
SplitArgs ==
    /\ op = "none"
    /\ \E text \in InputTexts :
        /\ op' = "split_args"
        /\ in_text' = text /\ text_from' = "input"
        /\ out' = split_args(text)
        /\ in_action' = None /\ in_actions' = <<>> /\ in_opts' = <<>>
        /\ UNCHANGED <<configVars, driverVars>>

\* split_args applied to the text the renderer just returned
SplitRendered ==
    /\ op \in {"example_no_value", "example_with_value", "all_examples"}
    /\ op' = "split_args"
    /\ in_text' = out /\ text_from' = op
    /\ out' = split_args(out)
    /\ UNCHANGED <<in_action, in_actions, in_opts, configVars, driverVars>>

RenderNext ==
    \/ ExampleNoValue
    \/ ExampleWithValue
    \/ AllExamples
    \/ SplitArgs
    \/ SplitRendered

RenderSpec == RenderInit /\ [][RenderNext]_vars

-----------------------------------------------------------------------------
(* Spec: one run of Edit.command                                           *)

\* the parser's actions, in the order they were added
ParserActions == <<A_help, A_name, A_license, A_force, A_verbose, A_edit>>

\* HEADER.template: the banner, a commented line
HEADER == <<HASH, SP, "e","d","i","t", SP, "m","e">>

\* the options Edit.command is called with
RawOpts ==
    {<<>>,
     D_name :> Str(<<"m","y","p","r","o","j">>),
     (D_name :> Str(<<"a", SP, "b">>)) @@ (D_force :> Bool(TRUE)),
     (D_log_level :> Bool(TRUE)) @@ (D_extensions :> List(<<EditExt>>))}

\* def expand_computed_opts(opts): the defaults are filled in
expand_computed_opts(o) == o @@ (D_license :> Str(<<"M","I","T">>))

\* what the user may leave in the file, besides leaving it as it was written
UserTexts ==
    {<<>>,
     <<HASH, SP, "n","o","t","h","i","n","g">>,
     <<SP>> \o F_name \o <<SP, SQ, "a", SP, "b", SQ, SP, LF, LF, SP>> \o F_force \o <<LF>>,
     <<SP>> \o F_name \o <<SP, "f","o","o", LF, SP>> \o F_license \o <<SP, SQ, "M","I","T">>,
     <<SP>> \o F_name \o <<SP, "f","o","o", BS>>}

EditedTexts(t) == {t} \cup UserTexts \cup {t \o <<LF, SP>> \o F_force}

\* what leaving the scope of tmpfile() does to the temp file
tmpfile_exit(t) == "released"

\* a scope that cleans up only when its body returns
with_exit_on_return(raised, t) == IF raised THEN t ELSE tmpfile_exit(t)

\* the with statement: its exit runs whether the body returned or raised
with_exit(raised, t) == tmpfile_exit(t)

\* the text before editing
read_text_before(file_text, content_before) == content_before

\* content = shell.edit(file).read_text("utf-8"): the text the file holds now
read_text(file_text, content_before) == file_text

Init ==
    /\ installed \in {{EditExt, ToxExt}, ExtensionPool}
    /\ cache = <<>>
    /\ ConfigIdle /\ RenderIdle
    /\ pc = "start"
    /\ opts \in RawOpts
    /\ content = <<>> /\ written = <<>> /\ file = <<>>
    /\ tmp = "none" /\ steps = <<>> /\ failedAt = "none" /\ mainArgs = <<>>

\* a step raises: the exception leaves the method, through the with
\* statement when the step is inside it
Raise(step, inWith) ==
    /\ pc' = "failed"
    /\ failedAt' = step
    /\ steps' = Append(steps, step)
    /\ tmp' = IF inWith THEN with_exit(TRUE, tmp) ELSE tmp

Step(step, next) ==
    /\ pc' = next
    /\ steps' = Append(steps, step)
    /\ UNCHANGED failedAt

\* opts = expand_computed_opts(opts)
Expand ==
    /\ pc = "start"
    /\ \/ /\ Step("expand", "expanded")
          /\ opts' = expand_computed_opts(opts)
          /\ UNCHANGED tmp
       \/ /\ Raise("expand", FALSE)
          /\ UNCHANGED opts
    /\ UNCHANGED <<content, written, file, mainArgs, configVars, renderVars>>

\* examples = all_examples(...); content = (os.linesep * 2).join([HEADER.template, examples])
Render ==
    /\ pc = "expanded"
    /\ Step("render", "rendered")
    /\ content' = Join(Repeat(linesep, 2), <<HEADER, all_examples(ParserActions, opts)>>)
    /\ Cached(CallsOfAllExamples(ParserActions, opts))
    /\ UNCHANGED <<opts, written, file, tmp, mainArgs, renderVars>>

\* with file_system.tmpfile(prefix="pyscaffold-", suffix=".args.sh") as file
Tmpfile ==
    /\ pc = "rendered"
    /\ \/ /\ Step("tmpfile", "acquired")
          /\ tmp' = "held"
       \/ Raise("tmpfile", FALSE)
    /\ UNCHANGED <<opts, content, written, file, mainArgs, configVars, renderVars>>

\* file.write_text(content, "utf-8")
Write ==
    /\ pc = "acquired"
    /\ \/ /\ Step("write", "written")
          /\ written' = content /\ file' = content
          /\ UNCHANGED tmp
       \/ /\ Raise("write", TRUE)
          /\ UNCHANGED <<written, file>>
    /\ UNCHANGED <<opts, content, mainArgs, configVars, renderVars>>

\* shell.edit(file): returns when the user has left the editor
Edit ==
    /\ pc = "written"
    /\ \/ /\ Step("edit", "edited")
          /\ file' \in EditedTexts(file)
          /\ UNCHANGED tmp
       \/ /\ Raise("edit", TRUE)
          /\ UNCHANGED file
    /\ UNCHANGED <<opts, content, written, mainArgs, configVars, renderVars>>

\* content = (the file).read_text("utf-8")
Read ==
    /\ pc = "edited"
    /\ \/ /\ Step("read", "read")
          /\ content' = read_text(file, content)
          /\ UNCHANGED tmp
       \/ /\ Raise("read", TRUE)
          /\ UNCHANGED content
    /\ UNCHANGED <<opts, written, file, mainArgs, configVars, renderVars>>

\* split_args(content), the argument of cli.main
Parse ==
    /\ pc = "read"
    /\ IF split_args(content).ok
       THEN Step("parse", "parsed") /\ UNCHANGED tmp
       ELSE Raise("parse", TRUE)
    /\ UNCHANGED <<opts, content, written, file, mainArgs, configVars, renderVars>>

\* cli.main(split_args(content)), then the end of the with block
Main ==
    /\ pc = "parsed"
    /\ mainArgs' = Append(mainArgs, split_args(content).tokens)
    /\ \/ /\ Step("main", "done")
          /\ tmp' = with_exit(FALSE, tmp)
       \/ Raise("main", TRUE)
    /\ UNCHANGED <<opts, content, written, file, configVars, renderVars>>

Next ==
    \/ Expand
    \/ Render
    \/ Tmpfile
    \/ Write
    \/ Edit
    \/ Read
    \/ Parse
    \/ Main

Spec == Init /\ [][Next]_vars

-----------------------------------------------------------------------------
(* Properties of Edit.command                                              *)

StepOrder == <<"expand", "render", "tmpfile", "write", "edit", "read", "parse", "main">>

Executed(step) == \E i \in DOMAIN steps : steps[i] = step

\* C1: the steps run in the order expand, render, persist (tmpfile, write),
\* edit, read and parse, re-invoke, each at most once; cli.main is invoked at
\* most once, only after the editor returned, with split_args of the text the
\* file holds after editing; a run without failure invokes it exactly once.
C1_StepOrder ==
    /\ IsPrefix(steps, StepOrder)
    /\ Len(mainArgs) <= 1
    /\ mainArgs # <<>> =>
          /\ Executed("edit") /\ Executed("read") /\ Executed("parse")
          /\ mainArgs[1] = split_args(file).tokens
    /\ pc = "done" => (Len(mainArgs) = 1 /\ steps = StepOrder /\ failedAt = "none")

\* a finished run in which the user changed the file and the arguments
\* passed on are not those of the text written
C1_Witness ==
    /\ pc = "done"
    /\ file # written
    /\ mainArgs = <<split_args(file).tokens>>
    /\ mainArgs[1] # split_args(written).tokens

Terminal == pc \in {"done", "failed"}

\* C2: the temp file is acquired before the editor is invoked, and no run
\* ends with it still held, whichever step failed: once acquired it is
\* released when the run ends.
C2_TmpfileReleased ==
    /\ Executed("edit") => tmp # "none"
    /\ tmp # "none" => Executed("tmpfile")
    /\ Terminal => tmp # "held"
    /\ (Terminal /\ Executed("tmpfile") /\ failedAt # "tmpfile") => tmp = "released"
    /\ ~Terminal /\ Executed("tmpfile") => tmp = "held"

\* a run that failed inside the with block, after the editor, and released the file
C2_Witness ==
    /\ pc = "failed"
    /\ failedAt \in {"read", "parse", "main"}
    /\ tmp = "released"

\* some line split_args keeps has malformed quoting
Malformed(text) ==
    \E i \in DOMAIN kept_lines(text) : ~shlex_split(kept_lines(text)[i]).ok

\* some line split_args keeps tokenises to at least one token
SomeLineTokenises(text) ==
    \E i \in DOMAIN kept_lines(text) :
        shlex_split(kept_lines(text)[i]).ok /\ shlex_split(kept_lines(text)[i]).tokens # <<>>

\* C3: a failure ends the run: the failed step is the last step executed, no
\* step is executed twice, and cli.main is not invoked unless it is cli.main
\* that failed; a malformed line in the edited text fails the parse step, so
\* cli.main is never invoked with the tokens of the other lines.
C3_FailurePropagates ==
    /\ (failedAt # "none") = (pc = "failed")
    /\ failedAt # "none" =>
          /\ steps # <<>> /\ steps[Len(steps)] = failedAt
          /\ IsPrefix(steps, StepOrder)
          /\ (failedAt # "main" => mainArgs = <<>>)
    /\ (Executed("parse") /\ Malformed(content)) =>
          (failedAt = "parse" /\ mainArgs = <<>>)

\* the parse step failed on a text of which another line tokenises
C3_Witness ==
    /\ failedAt = "parse"
    /\ Malformed(content) /\ SomeLineTokenises(content)
    /\ mainArgs = <<>>

-----------------------------------------------------------------------------
(* Properties of the renderer and of split_args                            *)

Commented(long) == <<HASH, SP>> \o long
Active(long) == <<SP>> \o long

\* C4: a descriptor whose canonical spelling is in the commented set is
\* rendered as a commented line, whatever its destination holds and whatever
\* extensions are active.
C4_CommentedNeverActive ==
    /\ (op = "example_no_value" /\ long_option(in_action) \in get_config("comment"))
          => out = Commented(long_option(in_action))
    /\ (op = "example_with_value" /\ long_option(in_action) \in get_config("comment"))
          => out[1] = HASH

\* C5 as stated: a zero-arity descriptor whose destination holds a truthy
\* value and whose canonical spelling is not in the commented set is rendered
\* in the active form, for every destination key.
C5_TruthyIsActive ==
    (/\ op = "example_no_value"
     /\ Truthy(DictGet(in_opts, in_action.dest, None))
     /\ long_option(in_action) \notin get_config("comment"))
        => out = Active(long_option(in_action))

\* C5 amended: the same, for every destination key other than "extensions".
C5_TruthyIsActiveExceptExtensions ==
    (/\ op = "example_no_value"
     /\ in_action.dest # D_extensions
     /\ Truthy(DictGet(in_opts, in_action.dest, None))
     /\ long_option(in_action) \notin get_config("comment"))
        => out = Active(long_option(in_action))

C5_Witness ==
    /\ op = "example_no_value"
    /\ in_action = A_force
    /\ DictGet(in_opts, D_force, None) = Str(<<"x">>)
    /\ DictGet(in_opts, D_extensions, None) = List(<<ToxExt>>)
    /\ out = Active(F_force)

EmptyOrAbsent(v) == v \in {None, Str(<<>>), List(<<>>), Tuple(<<>>)}

\* C6: a value-taking descriptor whose value is empty or absent (missing key,
\* None, empty string, empty list or tuple) is rendered as a commented line
\* made of the flag and the placeholder syntax.
C6_EmptyValueCommented ==
    (/\ op = "example_with_value"
     /\ in_action.option_strings # <<>>
     /\ EmptyOrAbsent(DictGet(in_opts, in_action.dest, None)))
        => out = comment(strip(long_option(in_action) \o <<SP>>
                               \o format_args(in_action, in_action.dest)), 0)

\* the tokens a descriptor rendered in the active form stands for
ValuesOf(v) == IF v.t \in {"list", "tuple"} THEN v.v ELSE <<FormatValue(v)>>

TokensOf(a, o) ==
    (IF long_option(a) = <<>> THEN <<>> ELSE <<long_option(a)>>)
    \o (IF a.nargs = "0" THEN <<>> ELSE ValuesOf(DictGet(o, a.dest, None)))

IsActive(a, o) == example(a, o)[1] = SP

RECURSIVE DocTokens(_, _)
DocTokens(actions, o) ==
    IF actions = <<>> THEN <<>>
    ELSE (IF long_option(Head(actions)) \notin get_config("ignore") /\ IsActive(Head(actions), o)
          THEN TokensOf(Head(actions), o) ELSE <<>>)
         \o DocTokens(Tail(actions), o)

\* C7: split_args applied to an example rendered in the active form from a
\* value returns the flag followed by the value(s), in order; applied to a
\* document it returns these token sequences concatenated in descriptor order.
C7_RoundTrip ==
    /\ (/\ op = "split_args" /\ text_from = "example_with_value"
        /\ in_action.option_strings # <<>> /\ in_text[1] = SP)
          => out = [ok |-> TRUE, tokens |-> TokensOf(in_action, in_opts)]
    /\ (op = "split_args" /\ text_from = "all_examples")
          => out = [ok |-> TRUE, tokens |-> DocTokens(in_actions, in_opts)]

\* the words of a line that holds no quote and no escape character
Words(line) == SelectSeq(SplitChunks(munge_whitespace(line)), LAMBDA c : c[1] # SP)

Discarded(line) == strip(line) = <<>> \/ strip(line)[1] = HASH

RECURSIVE WordsOfLines(_)
WordsOfLines(lines) ==
    IF lines = <<>> THEN <<>>
    ELSE (IF Discarded(Head(lines)) THEN <<>> ELSE Words(Head(lines)))
         \o WordsOfLines(Tail(lines))

\* C8: split_args drops the lines that, trimmed, are empty or start with "#"
\* and returns the tokens of the other lines in line order then token order:
\* a text of commented and blank lines gives the empty list, so does a rendered
\* document whose examples are all commented, a text without quoting gives
\* the words of its kept lines, splitting a text at a line break splits the
\* result, and the scenario text gives ["--name", "foo"].
C8_SplitArgs ==
    op = "split_args" =>
        LET lines == splitlines(in_text, FALSE) IN
        /\ (\A i \in DOMAIN lines : Discarded(lines[i]))
              => out = [ok |-> TRUE, tokens |-> <<>>]
        /\ (\A i \in DOMAIN in_text : in_text[i] \notin {SQ, DQ, BS})
              => out = [ok |-> TRUE, tokens |-> WordsOfLines(lines)]
        /\ \A i \in DOMAIN in_text :
              (in_text[i] = LF /\ text_from # "all_examples") =>
                 LET before == split_args(SubSeq(in_text, 1, i - 1))
                     after == split_args(SubSeq(in_text, i + 1, Len(in_text)))
                 IN out = IF before.ok /\ after.ok
                          THEN [ok |-> TRUE, tokens |-> before.tokens \o after.tokens]
                          ELSE [ok |-> FALSE, tokens |-> <<>>]
        /\ (text_from = "all_examples"
              /\ \A i \in DOMAIN in_actions : ~IsActive(in_actions[i], in_opts))
              => out = [ok |-> TRUE, tokens |-> <<>>]
        /\ in_text = ScenarioText
              => out = [ok |-> TRUE, tokens |-> << F_name, <<"f","o","o">> >>]

C8_Witness ==
    /\ op = "split_args"
    /\ in_text = ScenarioText
    /\ out.tokens = << F_name, <<"f","o","o">> >>

\* the descriptors whose canonical spelling is not in the ignored set
NotIgnored(actions) ==
    SelectSeq(actions, LAMBDA a : long_option(a) \notin get_config("ignore"))

\* C9: the document is made of one non-empty block for each descriptor that
\* is not ignored, in descriptor order, each starting with the descriptor's
\* example line, with two blank lines between blocks; an ignored descriptor
\* adds nothing.
C9_OneBlockPerDescriptor ==
    op = "all_examples" =>
        LET kept == NotIgnored(in_actions) IN
        /\ \A a \in Range(kept) :
              /\ example_with_help(a, in_opts) # <<>>
              /\ IsPrefix(example(a, in_opts), example_with_help(a, in_opts))
        /\ out = Join(<<LF, LF, LF>>,
                      [i \in DOMAIN kept |-> example_with_help(kept[i], in_opts)])
        /\ (kept = <<>> => out = <<>>)

C9_Witness ==
    /\ op = "all_examples"
    /\ in_actions = <<A_license, A_help, A_name>>
    /\ D_name \in DOMAIN in_opts
    /\ out = example_with_help(A_license, in_opts) \o <<LF, LF, LF>>
             \o example_with_help(A_name, in_opts)

====
